---- MODULE Spec2Model ----
(***************************************************************************)
(* Stock Price Dashboard (src/app.py): one run of main() fetches a quote   *)
(* and a historical series, builds a date-sorted frame and renders         *)
(* metrics, a candlestick/volume chart, a moving-average chart and a       *)
(* table of recent rows.                                                   *)
(*                                                                         *)
(* Modelling conventions                                                   *)
(*  - A JSON object / a DataFrame row is a function from its keys.         *)
(*  - A cell of a payload or of a frame is a record [k, v]: k = "num" a    *)
(*    number v; "iso" the date string "YYYY-MM-DD" with digits v =         *)
(*    YYYYMMDD; "ts" a parsed Timestamp, v its day number since            *)
(*    1970-01-01; "nan" / "nat" the missing markers NaN / NaT; "str" a     *)
(*    text that is no number and no date.                                  *)
(*  - Prices of the historical series are integers (cents).  A rolling     *)
(*    mean is [k |-> "mean", num, den], the two numbers pandas divides     *)
(*    (sum_x / nobs), or [k |-> "nan", ...].                               *)
(*  - An optional value (a figure that may not have been drawn) is a       *)
(*    sequence of length 0 or 1.                                           *)
(*  - Quote numbers are integers in thousandths; marketCap is in millions  *)
(*    of dollars (so that "/ 1e9" then ".2f" is a rounding to tens).       *)
(*  - st.cache_data is not modelled: a cached value is one of the values   *)
(*    a fresh request may return, so every cached run is a run here.       *)
(***************************************************************************)
EXTENDS Integers, Sequences, FiniteSets, TLC

VARIABLES pc, quote_resp, hist_resp, quote, historical, last_6m, page, exc

vars == <<pc, quote_resp, hist_resp, quote, historical, last_6m, page, exc>>

\* ------------------------------------------------------------------------
\* Program constants
\* ------------------------------------------------------------------------
MA20Window == 20
MA50Window == 50
Last6mRows == 180
RecentRows == 10
HttpOk == 200

display_cols == <<"date", "open", "high", "low", "close", "volume">>

Num(n) == [k |-> "num", v |-> n]
Iso(n) == [k |-> "iso", v |-> n]
Ts(n) == [k |-> "ts", v |-> n]
Text == [k |-> "str", v |-> 0]
NaN == [k |-> "nan", v |-> 0]
NaT == [k |-> "nat", v |-> 0]

\* ------------------------------------------------------------------------
\* Bounds of the explored inputs
\* ------------------------------------------------------------------------
\* lengths 180 .. 180 + MaxExtra of the historical payload are explored
MaxExtra == 2

Min(a, b) == IF a < b THEN a ELSE b

Max(a, b) == IF a > b THEN a ELSE b

Range(s) == {s[i] : i \in DOMAIN s}

\* the sequence f[1], ..., f[n], its elements evaluated once
Listed(f, n) == SubSeq(f, 1, n)

\* ------------------------------------------------------------------------
\* The payloads the API may answer with (the inputs of a run)
\* ------------------------------------------------------------------------
IsLeap(y) == (y % 4 = 0 /\ y % 100 # 0) \/ y % 400 = 0

DaysInMonth(y, m) ==
    IF m \in {4, 6, 9, 11} THEN 30
    ELSE IF m = 2 THEN (IF IsLeap(y) THEN 29 ELSE 28)
    ELSE 31

MaxLen == Last6mRows + MaxExtra

\* the months the payloads span: the digits YYYYMM and the number of trading
\* days of the payload before the month's first
Months ==
    <<[ym |-> 202309, before |-> 0], [ym |-> 202310, before |-> 30],
      [ym |-> 202311, before |-> 61], [ym |-> 202312, before |-> 91],
      [ym |-> 202401, before |-> 122], [ym |-> 202402, before |-> 153],
      [ym |-> 202403, before |-> 182], [ym |-> 202404, before |-> 213]>>

\* Calendar(k): the date string of the k-th day of the payloads (the first
\* is 2023-09-01, one day follows the other)
Calendar(k) ==
    LET i == CHOOSE j \in 1..7 : Months[j].before < k /\ k <= Months[j + 1].before
    IN  Months[i].ym * 100 + (k - Months[i].before)

ClosePrice(k) == 10000 + ((k * 7) % 11) * 10
OpenPrice(k) ==
    IF k % 3 = 0 THEN ClosePrice(k) ELSE ClosePrice(k + 1)

\* the API's record of the k-th day
DayRecord(k) ==
    [date     |-> Iso(Calendar(k)),
     open     |-> Num(OpenPrice(k)),
     high     |-> Num(Max(OpenPrice(k), ClosePrice(k)) + 5),
     low      |-> Num(Min(OpenPrice(k), ClosePrice(k)) - 5),
     close    |-> Num(ClosePrice(k)),
     volume   |-> Num(1000 + k),
     adjClose |-> Num(ClosePrice(k) - 1)]

Orders == {"asc", "desc", "rot"}

\* the day whose record stands at position i of a payload of n records
DayAt(ord, n, i) ==
    IF ord = "asc" THEN i
    ELSE IF ord = "desc" THEN n + 1 - i
    ELSE ((i - 1 + n \div 2) % n) + 1

Without(r, f) == [c \in DOMAIN r \ {f} |-> r[c]]

Defects ==
    {[kind |-> "none", field |-> "date"], [kind |-> "dup", field |-> "date"],
     [kind |-> "baddate", field |-> "date"],
     [kind |-> "text", field |-> "open"], [kind |-> "text", field |-> "close"]}
    \cup {[kind |-> "missing", field |-> f] : f \in Range(display_cols)}

\* a payload of n records in order ord, whose first record carries defect
HistoricalRecords(n, ord, defect) ==
    [i \in 1..n |->
        LET r == DayRecord(DayAt(ord, n, i))
        IN  IF i = 1 /\ defect.kind = "missing" THEN Without(r, defect.field)
            ELSE IF i = 1 /\ defect.kind = "text"
                THEN [r EXCEPT ![defect.field] = Text]
            ELSE IF i = 1 /\ defect.kind = "baddate"
                THEN [r EXCEPT !.date = Iso(20230230)]
            ELSE IF i = 2 /\ defect.kind = "dup"
                THEN [r EXCEPT !.date = Iso(Calendar(DayAt(ord, n, 1)))]
            ELSE r]

Lengths == {1, 2, 11, 21, 51} \cup (Last6mRows..MaxLen)

EmptyObject == [c \in {} |-> NaN]

\* the answers to GET /api/v3/historical-price-full/<symbol>
HistResponses ==
    {[status |-> 404, json |-> [error |-> Text]],
     [status |-> HttpOk, json |-> EmptyObject],
     [status |-> HttpOk, json |-> [symbol |-> Text]],
     [status |-> HttpOk, json |-> [symbol |-> Text, historical |-> <<>>]]}
    \cup {[status |-> HttpOk,
           json |-> [symbol |-> Text,
                     historical |-> HistoricalRecords(c.n, c.ord, c.defect)]] :
            c \in {x \in [n : Lengths, ord : Orders, defect : Defects] :
                      x.defect.kind = "dup" => x.n >= 2}}

\* ------------------------------------------------------------------------
\* pandas, as far as app.py uses it
\* ------------------------------------------------------------------------
\* pd.DataFrame(): no columns, no rows
EmptyFrame == [cols |-> {}, rows |-> <<>>]

\* mutant of DataFrame: a record that lacks a key is dropped
DataFrame_drops_incomplete(records) ==
    LET cols == UNION {DOMAIN records[i] : i \in DOMAIN records}
        Complete(r) == DOMAIN r = cols
    IN  [cols |-> cols, rows |-> SelectSeq(records, Complete)]

\* pd.DataFrame(list of dicts): the columns are the union of the keys, a
\* key a record lacks is filled with NaN
DataFrame(records) ==
    LET cols == UNION {DOMAIN records[i] : i \in DOMAIN records}
    IN  [cols |-> cols,
         rows |-> Listed([i \in 1..Len(records) |->
                             [c \in cols |-> IF c \in DOMAIN records[i]
                                               THEN records[i][c] ELSE NaN]],
                         Len(records))]

\* DataFrame.empty: any axis of length 0
empty(df) == df.cols = {} \/ Len(df.rows) = 0

Column(df, c) == Listed([i \in 1..Len(df.rows) |-> df.rows[i][c]], Len(df.rows))

LeapsBefore(y) == (y - 1) \div 4 - (y - 1) \div 100 + (y - 1) \div 400

RECURSIVE DaysBeforeMonth(_, _)
DaysBeforeMonth(y, m) ==
    IF m = 1 THEN 0 ELSE DaysBeforeMonth(y, m - 1) + DaysInMonth(y, m - 1)

\* whether pd.to_datetime accepts the cell: a missing value, or the digits
\* of a calendar date ("2023-02-30" raises: day is out of range for month)
Parseable(cell) ==
    \/ cell.k = "nan"
    \/ /\ cell.k = "iso"
       /\ LET y == cell.v \div 10000
              m == (cell.v \div 100) % 100
              d == cell.v % 100
          IN  m \in 1..12 /\ d >= 1 /\ d <= DaysInMonth(y, m)

\* pd.to_datetime of one parseable cell: NaN becomes NaT, a date string
\* becomes the Timestamp of its day (days since 1970-01-01)
to_datetime(cell) ==
    IF cell.k = "nan" THEN NaT
    ELSE LET y == cell.v \div 10000
             m == (cell.v \div 100) % 100
             d == cell.v % 100
         IN  Ts(365 * (y - 1970) + LeapsBefore(y) - LeapsBefore(1970)
                + DaysBeforeMonth(y, m) + d - 1)

\* the order sort_values sorts Timestamps by: ascending, NaT last
Before(a, b) == a.k = "ts" /\ (b.k = "nat" \/ a.v < b.v)
SameKey(a, b) == a.k = b.k /\ (a.k = "nat" \/ a.v = b.v)

\* mutant of sort_values: ascending=False
sort_values_descending(df, by, reversed) ==
    LET n == Len(df.rows)
        key == Listed([j \in 1..n |-> df.rows[j][by]], n)
        rank == Listed([j \in 1..n |->
                  1 + Cardinality({k \in 1..n : Before(key[j], key[k])})
                    + Cardinality({k \in 1..n :
                         /\ SameKey(key[k], key[j])
                         /\ IF reversed THEN k > j ELSE k < j})], n)
    IN  [cols |-> df.cols,
         rows |-> Listed([i \in 1..n |->
                             df.rows[CHOOSE j \in 1..n : rank[j] = i]], n)]

\* df.sort_values(by): kind="quicksort" is not stable, the order of rows whose
\* keys are equal is not determined; reversed says which way they come out
sort_values(df, by, reversed) ==
    LET n == Len(df.rows)
        key == Column(df, by)
        rank == Listed([j \in 1..n |->
                  1 + Cardinality({k \in 1..n : Before(key[k], key[j])})
                    + Cardinality({k \in 1..n :
                         /\ SameKey(key[k], key[j])
                         /\ IF reversed THEN k > j ELSE k < j})], n)
    IN  [cols |-> df.cols,
         rows |-> Listed([i \in 1..n |->
                             df.rows[CHOOSE j \in 1..n : rank[j] = i]], n)]

\* mutant of tail: df.head(k), the first k rows
head(df, k) ==
    LET n == Len(df.rows)
    IN  [cols |-> df.cols,
         rows |-> IF n <= k THEN df.rows ELSE SubSeq(df.rows, 1, k)]

\* df.tail(k): the last k rows, all of them when there are fewer
tail(df, k) ==
    LET n == Len(df.rows)
    IN  [cols |-> df.cols,
         rows |-> IF n <= k THEN df.rows ELSE SubSeq(df.rows, n - k + 1, n)]

\* df[list of columns]: KeyError when one is missing (see display_charts)
Select(df, names) ==
    [cols |-> Range(names),
     rows |-> Listed([i \in 1..Len(df.rows) |->
                         [c \in Range(names) |-> df.rows[i][c]]], Len(df.rows))]

\* the answers to GET /stable/quote: a list of quote objects
FullQuote ==
    [price |-> 189456, changesPercentage |-> -1234, dayHigh |-> 190128,
     dayLow |-> 187003, volume |-> 51234567, yearHigh |-> 199621,
     yearLow |-> 124172, marketCap |-> 2950123, pe |-> 31207]

OtherQuote ==
    [price |-> 411002, changesPercentage |-> 317, dayHigh |-> 412999,
     dayLow |-> 409001, volume |-> 20111222, yearHigh |-> 430822,
     yearLow |-> 309448, marketCap |-> 3050246, pe |-> 35914]

QuoteResponses ==
    {[status |-> 500, json |-> <<FullQuote>>],
     [status |-> HttpOk, json |-> <<>>],
     [status |-> HttpOk, json |-> <<FullQuote>>],
     [status |-> HttpOk, json |-> <<EmptyObject>>],
     [status |-> HttpOk, json |-> <<Without(OtherQuote, "pe"), FullQuote>>]}

\* ------------------------------------------------------------------------
\* app.py
\* ------------------------------------------------------------------------
None == [k |-> "none", items |-> <<>>]

\* get_quote: the parsed body on status 200, None otherwise
get_quote(response) ==
    IF response.status = HttpOk
    THEN [k |-> "list", items |-> response.json]
    ELSE None

\* get_historical: [exc, df], the exception raised or the frame returned
get_historical(response, reversed) ==
    IF response.status = HttpOk /\ "historical" \in DOMAIN response.json
    THEN LET df == DataFrame(response.json.historical)
         IN  IF "date" \notin df.cols
             THEN [exc |-> "KeyError", df |-> EmptyFrame]
             ELSE IF \E i \in 1..Len(df.rows) : ~Parseable(df.rows[i].date)
             THEN [exc |-> "ValueError", df |-> EmptyFrame]
             ELSE [exc |-> "none",
                   df |-> sort_values(
                       [cols |-> df.cols,
                        rows |-> Listed([i \in 1..Len(df.rows) |->
                           [df.rows[i] EXCEPT !.date = to_datetime(@)]],
                           Len(df.rows))],
                       "date", reversed)]
    ELSE [exc |-> "none", df |-> EmptyFrame]

\* mutant of Less: a <= b
LessOrEqual(a, b) == a.k = "num" /\ b.k = "num" /\ a.v <= b.v

\* a < b on two cells: NaN compares False, a text against a number raises
Less(a, b) == a.k = "num" /\ b.k = "num" /\ a.v < b.v
Incomparable(a, b) == (a.k = "str") # (b.k = "str")

\* create_candlestick_chart: [exc, fig]
create_candlestick_chart(df) ==
    LET n == Len(df.rows)
    IN  IF ~({"date", "open", "high", "low", "close"} \subseteq df.cols)
        THEN [exc |-> "KeyError", fig |-> <<>>]
        ELSE IF \E i \in 1..n : Incomparable(df.rows[i].close, df.rows[i].open)
        THEN [exc |-> "TypeError", fig |-> <<>>]
        ELSE IF "volume" \notin df.cols
        THEN [exc |-> "KeyError", fig |-> <<>>]
        ELSE [exc |-> "none",
              fig |-> <<[x |-> Column(df, "date"),
                         open |-> Column(df, "open"),
                         high |-> Column(df, "high"),
                         low |-> Column(df, "low"),
                         close |-> Column(df, "close"),
                         bar_y |-> Column(df, "volume"),
                         marker_color |-> Listed([i \in 1..n |->
                             IF Less(df.rows[i].close, df.rows[i].open)
                             THEN "red" ELSE "green"], n)]>>]

NoMean == [k |-> "nan", num |-> 0, den |-> 1]

\* the sum of the numbers among values[lo..hi] (NaN is skipped)
RECURSIVE SumNumbers(_, _, _)
SumNumbers(values, lo, hi) ==
    IF lo > hi THEN 0
    ELSE IF lo = hi THEN (IF values[lo].k = "num" THEN values[lo].v ELSE 0)
    ELSE SumNumbers(values, lo, (lo + hi) \div 2)
         + SumNumbers(values, (lo + hi) \div 2 + 1, hi)

\* mutant of rolling_mean: min_periods = 1, a mean of the values there are
rolling_mean_min_periods_1(values, window) ==
    LET n == Len(values)
    IN  Listed([i \in 1..n |->
            LET lo == Max(1, i - window + 1)
                nobs == Cardinality({j \in lo..i : values[j].k = "num"})
            IN  IF nobs >= 1
                THEN [k |-> "mean", num |-> SumNumbers(values, lo, i),
                      den |-> nobs]
                ELSE NoMean], n)

\* Series.rolling(window).mean(): the value at i is over the window of the
\* `window` values ending at i; min_periods defaults to window, so the value
\* is NaN unless the window holds `window` numbers (NaN is not counted)
rolling_mean(values, window) ==
    LET n == Len(values)
    IN  Listed([i \in 1..n |->
            LET lo == Max(1, i - window + 1)
                nobs == Cardinality({j \in lo..i : values[j].k = "num"})
            IN  IF nobs >= window
                THEN [k |-> "mean", num |-> SumNumbers(values, lo, i),
                      den |-> nobs]
                ELSE NoMean], n)

\* mutant of create_moving_average_chart: no df.copy(), the MA columns are
\* set on the caller's frame
create_moving_average_chart_in_place(df) ==
    IF "close" \notin df.cols
    THEN [exc |-> "KeyError", fig |-> <<>>, arg |-> df]
    ELSE IF \E i \in 1..Len(df.rows) : df.rows[i].close.k = "str"
    THEN [exc |-> "DataError", fig |-> <<>>, arg |-> df]
    ELSE LET MA20 == rolling_mean(Column(df, "close"), MA20Window)
             MA50 == rolling_mean(Column(df, "close"), MA50Window)
             cols == df.cols \cup {"MA20", "MA50"}
         IN  [exc |-> "none",
              fig |-> <<[x |-> Column(df, "date"),
                         close |-> Column(df, "close"),
                         MA20 |-> MA20, MA50 |-> MA50]>>,
              arg |-> [cols |-> cols,
                       rows |-> Listed([i \in 1..Len(df.rows) |->
                          [c \in cols |->
                             IF c = "MA20" THEN MA20[i]
                             ELSE IF c = "MA50" THEN MA50[i]
                             ELSE df.rows[i][c]]], Len(df.rows))]]

\* create_moving_average_chart: [exc, fig, arg]; arg is the caller's frame
\* as the call leaves it (the columns are added to a copy)
create_moving_average_chart(df) ==
    IF "close" \notin df.cols
    THEN [exc |-> "KeyError", fig |-> <<>>, arg |-> df]
    ELSE IF \E i \in 1..Len(df.rows) : df.rows[i].close.k = "str"
    THEN [exc |-> "DataError", fig |-> <<>>, arg |-> df]
    ELSE [exc |-> "none",
          fig |-> <<[x |-> Column(df, "date"),
                     close |-> Column(df, "close"),
                     MA20 |-> rolling_mean(Column(df, "close"), MA20Window),
                     MA50 |-> rolling_mean(Column(df, "close"), MA50Window)]>>,
          arg |-> df]

\* dict.get(key, default)
get(q, key, default) == IF key \in DOMAIN q THEN q[key] ELSE default

\* format spec ".2f" of a number given in thousandths: the hundredths
\* nearest to it (the explored values end in no 5, so no tie arises)
Fmt2(x) == IF x >= 0 THEN (x + 5) \div 10 ELSE -((5 - x) \div 10)

NA == [k |-> "N/A", v |-> 0]

\* mutant of display_metrics: q.get('pe', 0)
display_metrics_pe_default_0(q) ==
    [Price      |-> Fmt2(get(q, "price", 0)),
     PriceDelta |-> Fmt2(get(q, "changesPercentage", 0)),
     DayHigh    |-> Fmt2(get(q, "dayHigh", 0)),
     DayLow     |-> Fmt2(get(q, "dayLow", 0)),
     Volume     |-> get(q, "volume", 0),
     YearHigh   |-> Fmt2(get(q, "yearHigh", 0)),
     YearLow    |-> Fmt2(get(q, "yearLow", 0)),
     MarketCap  |-> Fmt2(get(q, "marketCap", 0)),
     PE         |-> Num(get(q, "pe", 0))]

\* display_metrics: the eight st.metric values (and the delta of the first)
display_metrics(q) ==
    [Price      |-> Fmt2(get(q, "price", 0)),
     PriceDelta |-> Fmt2(get(q, "changesPercentage", 0)),
     DayHigh    |-> Fmt2(get(q, "dayHigh", 0)),
     DayLow     |-> Fmt2(get(q, "dayLow", 0)),
     Volume     |-> get(q, "volume", 0),
     YearHigh   |-> Fmt2(get(q, "yearHigh", 0)),
     YearLow    |-> Fmt2(get(q, "yearLow", 0)),
     MarketCap  |-> Fmt2(get(q, "marketCap", 0)),
     PE         |-> IF "pe" \in DOMAIN q THEN Num(q.pe) ELSE NA]

\* mutant of display_charts: the moving averages are computed on the whole
\* history and the chart shows their last 180 values
display_charts_ma_of_history(hist) ==
    LET l6m == tail(hist, Last6mRows)
        c == create_candlestick_chart(l6m)
        h == create_moving_average_chart(hist)
        n == Len(hist.rows)
        from == Max(1, n - Last6mRows + 1)
        fig == IF h.exc # "none" THEN <<>>
               ELSE <<[x |-> SubSeq(h.fig[1].x, from, n),
                       close |-> SubSeq(h.fig[1].close, from, n),
                       MA20 |-> SubSeq(h.fig[1].MA20, from, n),
                       MA50 |-> SubSeq(h.fig[1].MA50, from, n)]>>
    IN  IF c.exc # "none"
        THEN [exc |-> c.exc, candlestick |-> <<>>, ma |-> <<>>,
              table |-> <<>>, last_6m |-> l6m]
        ELSE IF h.exc # "none"
        THEN [exc |-> h.exc, candlestick |-> c.fig, ma |-> <<>>,
              table |-> <<>>, last_6m |-> l6m]
        ELSE [exc |-> "none", candlestick |-> c.fig, ma |-> fig,
              table |-> <<Select(tail(l6m, RecentRows), display_cols)>>,
              last_6m |-> l6m]

\* display_charts: what it draws before it returns or raises, and its local
\* last_6m as the calls leave it
display_charts(hist) ==
    LET l6m == tail(hist, Last6mRows)
        c == create_candlestick_chart(l6m)
        m == create_moving_average_chart(l6m)
    IN  IF c.exc # "none"
        THEN [exc |-> c.exc, candlestick |-> <<>>, ma |-> <<>>,
              table |-> <<>>, last_6m |-> l6m]
        ELSE IF m.exc # "none"
        THEN [exc |-> m.exc, candlestick |-> c.fig, ma |-> <<>>,
              table |-> <<>>, last_6m |-> m.arg]
        ELSE IF ~(Range(display_cols) \subseteq m.arg.cols)
        THEN [exc |-> "KeyError", candlestick |-> c.fig, ma |-> m.fig,
              table |-> <<>>, last_6m |-> m.arg]
        ELSE [exc |-> "none", candlestick |-> c.fig, ma |-> m.fig,
              table |-> <<Select(tail(m.arg, RecentRows), display_cols)>>,
              last_6m |-> m.arg]

BlankPage ==
    [error |-> FALSE, metrics |-> <<>>, candlestick |-> <<>>, ma |-> <<>>,
     table |-> <<>>]

\* main, lines 267-275: [exc, page, last_6m]
display_content(q, hist) ==
    IF q.k = "list" /\ Len(q.items) > 0
    THEN LET metrics == <<display_metrics(q.items[1])>>
         IN  IF ~empty(hist)
             THEN LET r == display_charts(hist)
                  IN  [exc |-> r.exc,
                       page |-> [error |-> FALSE, metrics |-> metrics,
                                 candlestick |-> r.candlestick, ma |-> r.ma,
                                 table |-> r.table],
                       last_6m |-> r.last_6m]
             ELSE [exc |-> "none",
                   page |-> [BlankPage EXCEPT !.metrics = metrics],
                   last_6m |-> EmptyFrame]
    ELSE [exc |-> "none", page |-> [BlankPage EXCEPT !.error = TRUE],
          last_6m |-> EmptyFrame]

\* ------------------------------------------------------------------------
\* One run of main after another (Streamlit reruns the script)
\* ------------------------------------------------------------------------
NoResponse == [status |-> 0, json |-> <<>>]

Init ==
    /\ pc = "get_quote"
    /\ quote_resp = NoResponse
    /\ hist_resp = NoResponse
    /\ quote = None
    /\ historical = EmptyFrame
    /\ last_6m = EmptyFrame
    /\ page = BlankPage
    /\ exc = "none"

\* line 264
GetQuote ==
    /\ pc = "get_quote"
    /\ \E response \in QuoteResponses :
          /\ quote_resp' = response
          /\ quote' = get_quote(response)
    /\ pc' = "get_historical"
    /\ UNCHANGED <<hist_resp, historical, last_6m, page, exc>>

HasTies(response) ==
    /\ "historical" \in DOMAIN response.json
    /\ \E i, j \in 1..Len(response.json.historical) :
          /\ i < j
          /\ "date" \in DOMAIN response.json.historical[i]
          /\ "date" \in DOMAIN response.json.historical[j]
          /\ response.json.historical[i].date = response.json.historical[j].date

\* line 265
GetHistorical ==
    /\ pc = "get_historical"
    /\ \E response \in HistResponses :
        \E reversed \in (IF HasTies(response) THEN BOOLEAN ELSE {FALSE}) :
          LET r == get_historical(response, reversed)
          IN  /\ hist_resp' = response
              /\ historical' = r.df
              /\ exc' = r.exc
              /\ pc' = IF r.exc = "none" THEN "display" ELSE "raised"
    /\ UNCHANGED <<quote_resp, quote, last_6m, page>>

\* lines 267-275
DisplayContent ==
    /\ pc = "display"
    /\ LET r == display_content(quote, historical)
       IN  /\ page' = r.page
           /\ last_6m' = r.last_6m
           /\ exc' = r.exc
           /\ pc' = IF r.exc = "none" THEN "done" ELSE "raised"
    /\ UNCHANGED <<quote_resp, hist_resp, quote, historical>>

\* the script runs again from the top with a fresh page
Rerun ==
    /\ pc \in {"done", "raised"}
    /\ pc' = "get_quote"
    /\ quote_resp' = NoResponse
    /\ hist_resp' = NoResponse
    /\ quote' = None
    /\ historical' = EmptyFrame
    /\ last_6m' = EmptyFrame
    /\ page' = BlankPage
    /\ exc' = "none"

Next == GetQuote \/ GetHistorical \/ DisplayContent \/ Rerun

Spec == Init /\ [][Next]_vars

\* ------------------------------------------------------------------------
\* Vocabulary of the properties
\* ------------------------------------------------------------------------
\* the records of the historical payload (none when the key is absent)
PayloadRecords ==
    IF "historical" \in DOMAIN hist_resp.json
    THEN hist_resp.json.historical ELSE <<>>

\* get_historical has returned a frame (it did not raise)
HistoricalReturned == pc \in {"display", "done"} \/ (pc = "raised" /\ ~empty(historical))

\* get_historical raised: main stopped at line 265
HistoricalRaised == pc = "raised" /\ empty(historical)

\* main ran to its end or to the exception that ended it
RunOver == pc \in {"done", "raised"}

\* display_charts was called
ChartsCalled ==
    /\ RunOver
    /\ quote.k = "list" /\ Len(quote.items) > 0
    /\ ~empty(historical)

IsNumber(cell) == cell.k = "num"

\* values[lo] + ... + values[hi], one after the other
RECURSIVE SumCells(_, _, _)
SumCells(values, lo, hi) ==
    IF lo > hi THEN 0 ELSE values[hi].v + SumCells(values, lo, hi - 1)

\* ma is the moving average of closes over window w: NaN before index w
\* (1-based), the mean of the w closes ending at i from there on (NaN when
\* one of them is missing)
IsMovingAverage(ma, closes, w) ==
    /\ Len(ma) = Len(closes)
    /\ \A i \in 1..Len(closes) :
          IF i < w \/ \E j \in (i - w + 1)..i : ~IsNumber(closes[j])
          THEN ma[i].k = "nan"
          ELSE /\ ma[i].k = "mean"
               /\ ma[i].den = w
               /\ ma[i].num = SumCells(closes, i - w + 1, i)

\* ------------------------------------------------------------------------
\* C1: the moving averages drawn have the length of the charted closes, are
\* the NaN marker at every 0-based index i < N-1 and the arithmetic mean of
\* the closes at i-N+1..i from i = N-1 on (N = 20, 50); closes 10, 12, 11
\* with window 2 give NaN, 11, 11.5.
\* ------------------------------------------------------------------------
C1_MovingAverage ==
    /\ Len(page.ma) = 1 =>
          /\ IsMovingAverage(page.ma[1].MA20, page.ma[1].close, MA20Window)
          /\ IsMovingAverage(page.ma[1].MA50, page.ma[1].close, MA50Window)
    /\ LET ma == rolling_mean(<<Num(10), Num(12), Num(11)>>, 2)
       IN  /\ Len(ma) = 3
           /\ ma[1].k = "nan"
           /\ ma[2].k = "mean" /\ ma[2].num = 11 * ma[2].den
           /\ ma[3].k = "mean" /\ 2 * ma[3].num = 23 * ma[3].den

C1_Witness ==
    /\ Len(page.ma) = 1
    /\ Len(page.ma[1].close) = 51
    /\ \A i \in 1..51 : IsNumber(page.ma[1].close[i])
    /\ page.ma[1].MA20[19].k = "nan" /\ page.ma[1].MA20[20].k = "mean"
    /\ page.ma[1].MA50[49].k = "nan" /\ page.ma[1].MA50[51].k = "mean"

\* ------------------------------------------------------------------------
\* C2 as claimed: the series get_historical returns for a non-empty payload
\* is strictly ascending by date, no two points share a date.
\* ------------------------------------------------------------------------
C2_StrictlyAscending ==
    (HistoricalReturned /\ Len(PayloadRecords) > 0) =>
        \A i \in 1..(Len(historical.rows) - 1) :
            Before(historical.rows[i].date, historical.rows[i + 1].date)

\* C2 amended: the series holds one row per record of the payload and is
\* ascending by date; it is strictly ascending exactly when no two records
\* carry the same date (records with the same date are both kept).
C2_Amended ==
    (HistoricalReturned /\ Len(PayloadRecords) > 0) =>
        /\ Len(historical.rows) = Len(PayloadRecords)
        /\ \A i \in 1..(Len(historical.rows) - 1) :
              ~Before(historical.rows[i + 1].date, historical.rows[i].date)
        /\ HasTies(hist_resp) <=>
              \E i \in 1..(Len(historical.rows) - 1) :
                  SameKey(historical.rows[i].date, historical.rows[i + 1].date)

C2_Witness ==
    /\ pc = "display"
    /\ HasTies(hist_resp)
    /\ Len(historical.rows) > Last6mRows
    /\ \E i \in 1..(Len(historical.rows) - 1) :
          /\ SameKey(historical.rows[i].date, historical.rows[i + 1].date)
          /\ historical.rows[i].volume # historical.rows[i + 1].volume

\* ------------------------------------------------------------------------
\* C3 as claimed: a record that lacks one of date, open, high, low, close,
\* volume, or carries a numeric field that is no number, makes building the
\* series fail: no series is returned.
\* ------------------------------------------------------------------------
Malformed(rec) ==
    \E f \in Range(display_cols) :
        f \notin DOMAIN rec \/ (f # "date" /\ rec[f].k = "str")

C3_MalformedRecordFails ==
    (\E i \in 1..Len(PayloadRecords) : Malformed(PayloadRecords[i]))
        => ~HistoricalReturned

\* C3 amended: building fails (the exception leaves main, nothing is drawn)
\* exactly when a date string cannot be parsed or no record has a date;
\* otherwise the series holds one row per record, a field a record lacks is
\* filled with the NaN (date: NaT) placeholder and a text in a numeric field
\* is kept as it is.
C3_Amended ==
    (pc \notin {"get_quote", "get_historical"} /\ Len(PayloadRecords) > 0) =>
        LET recs == PayloadRecords
            n == Len(recs)
            badDate == \E i \in 1..n :
                          "date" \in DOMAIN recs[i] /\ ~Parseable(recs[i].date)
            noDate == \A i \in 1..n : "date" \notin DOMAIN recs[i]
        IN  IF badDate \/ noDate
            THEN /\ HistoricalRaised
                 /\ exc \in {"ValueError", "KeyError"}
                 /\ page = BlankPage
            ELSE /\ HistoricalReturned
                 /\ Len(historical.rows) = n
                 /\ \A f \in Range(display_cols) :
                       IF f \notin historical.cols
                       THEN \A i \in 1..n : f \notin DOMAIN recs[i]
                       ELSE /\ Cardinality({i \in 1..n : f \notin DOMAIN recs[i]})
                               = Cardinality({i \in 1..n :
                                   historical.rows[i][f].k \in {"nan", "nat"}})
                            /\ Cardinality({i \in 1..n :
                                   f \in DOMAIN recs[i] /\ recs[i][f].k = "str"})
                               = Cardinality({i \in 1..n :
                                   historical.rows[i][f].k = "str"})

C3_Witness ==
    /\ pc = "display"
    /\ Len(historical.rows) = 21
    /\ \E i \in 1..21 : "close" \notin DOMAIN PayloadRecords[i]
    /\ \E i \in 1..21 : historical.rows[i].close = NaN

\* ------------------------------------------------------------------------
\* C4: an empty historical payload (the key absent, or a list of zero
\* records) gives a series of length 0 and no exception, and the stages
\* after it give empty output on that series without raising.
\* ------------------------------------------------------------------------
C4_EmptyPayloadNoException ==
    (/\ pc \notin {"get_quote", "get_historical"}
     /\ hist_resp.status = HttpOk
     /\ Len(PayloadRecords) = 0) =>
        /\ exc = "none"
        /\ Len(historical.rows) = 0
        /\ display_charts(historical).exc = "none"

\* ------------------------------------------------------------------------
\* C5 as claimed: for a list payload, normalization never raises; an empty
\* list gives the record of defaults, a non-empty one the first element
\* with each missing key replaced by its default (0, "N/A" for pe).
\* ------------------------------------------------------------------------
MetricKeys ==
    {<<"Price", "price">>, <<"PriceDelta", "changesPercentage">>,
     <<"DayHigh", "dayHigh">>, <<"DayLow", "dayLow">>,
     <<"YearHigh", "yearHigh">>, <<"YearLow", "yearLow">>,
     <<"MarketCap", "marketCap">>}

\* record is the quote record of the object q, with the defaults
IsQuoteRecordOf(record, q) ==
    /\ \A lk \in MetricKeys :
          record[lk[1]] = IF lk[2] \in DOMAIN q THEN Fmt2(q[lk[2]]) ELSE 0
    /\ record.Volume = IF "volume" \in DOMAIN q THEN q.volume ELSE 0
    /\ record.PE = IF "pe" \in DOMAIN q THEN Num(q.pe) ELSE NA

\* line 269 was reached: the run is over and get_historical did not raise
MetricsReached == RunOver /\ ~HistoricalRaised

C6_RecentWindow ==
    ChartsCalled =>
        LET n == Len(historical.rows)
            m == Min(n, Last6mRows)
        IN  /\ Len(last_6m.rows) = m
            /\ \A i \in 1..m : last_6m.rows[i] = historical.rows[n - m + i]
            /\ n <= Last6mRows => last_6m.rows = historical.rows
            /\ Len(page.candlestick) = 1 =>
                  /\ Len(page.candlestick[1].x) = m
                  /\ \A i \in 1..m :
                        page.candlestick[1].x[i] = historical.rows[n - m + i].date

C6_Witness ==
    /\ ChartsCalled
    /\ Len(historical.rows) = Last6mRows + 2
    /\ Len(last_6m.rows) = Last6mRows
    /\ last_6m.rows[1] = historical.rows[3]
    /\ Len(page.candlestick) = 1

\* ------------------------------------------------------------------------
\* C7: MA20 and MA50 are computed from the recent window alone: for a series
\* of more than 180 points the first 19 / 49 values are undefined although
\* earlier history exists, and a defined value averages closes of the window.
\* ------------------------------------------------------------------------
C7_AverageOverWindowOnly ==
    (Len(page.ma) = 1 /\ Len(historical.rows) > Last6mRows) =>
        LET off == Len(historical.rows) - Last6mRows
            closes == Column(historical, "close")
        IN  \A w \in {<<MA20Window, page.ma[1].MA20>>,
                       <<MA50Window, page.ma[1].MA50>>} :
              /\ Len(w[2]) = Last6mRows
              /\ \A i \in 1..(w[1] - 1) : w[2][i].k = "nan"
              /\ \A i \in w[1]..Last6mRows :
                    w[2][i].k = "mean" =>
                        /\ off + i - w[1] + 1 > off
                        /\ w[2][i].den = w[1]
                        /\ w[2][i].num
                             = SumCells(closes, off + i - w[1] + 1, off + i)

C7_Witness ==
    /\ Len(page.ma) = 1
    /\ Len(historical.rows) = Last6mRows + 2
    /\ \A i \in 1..Len(historical.rows) : IsNumber(historical.rows[i].close)
    /\ page.ma[1].MA20[MA20Window - 1].k = "nan"
    /\ page.ma[1].MA50[MA50Window - 1].k = "nan"
    /\ page.ma[1].MA50[MA50Window].k = "mean"

\* ------------------------------------------------------------------------
\* C8: the volume direction of point i is down (red) exactly when
\* close[i] < open[i] and up (green) otherwise, close = open included; there
\* is one direction per point and it depends on that point alone.
\* ------------------------------------------------------------------------
C8_VolumeDirection ==
    Len(page.candlestick) = 1 =>
        LET fig == page.candlestick[1]
        IN  /\ Len(fig.marker_color) = Len(fig.close)
            /\ \A i \in 1..Len(fig.close) :
                  fig.marker_color[i] =
                      IF /\ IsNumber(fig.close[i]) /\ IsNumber(fig.open[i])
                         /\ fig.close[i].v < fig.open[i].v
                      THEN "red" ELSE "green"

C8_Witness ==
    /\ Len(page.candlestick) = 1
    /\ LET fig == page.candlestick[1]
       IN  /\ \E i \in 1..Len(fig.close) :
                 fig.close[i] = fig.open[i] /\ fig.marker_color[i] = "green"
           /\ \E i \in 1..Len(fig.close) :
                 /\ IsNumber(fig.close[i]) /\ IsNumber(fig.open[i])
                 /\ fig.close[i].v > fig.open[i].v
                 /\ fig.marker_color[i] = "green"
           /\ \E i \in 1..Len(fig.close) : fig.marker_color[i] = "red"

\* ------------------------------------------------------------------------
\* C9: the recent table is the last min(10, min(n, 180)) points of the
\* recent window in order, with exactly the columns date, open, high, low,
\* close, volume; drawing the charts leaves the window as it was cut from
\* the series (the moving averages are added to a copy).
\* ------------------------------------------------------------------------
C9_RecentTable ==
    Len(page.table) = 1 =>
        LET n == Len(historical.rows)
            t == Min(RecentRows, Min(n, Last6mRows))
            table == page.table[1]
        IN  /\ table.cols = Range(display_cols)
            /\ Len(table.rows) = t
            /\ \A i \in 1..t :
                  /\ DOMAIN table.rows[i] = Range(display_cols)
                  /\ \A c \in Range(display_cols) :
                        table.rows[i][c] = historical.rows[n - t + i][c]
            /\ last_6m.cols = historical.cols
            /\ \A i \in 1..Len(last_6m.rows) :
                  last_6m.rows[i] = historical.rows[n - Len(last_6m.rows) + i]

C9_Witness ==
    /\ Len(page.table) = 1
    /\ Len(historical.rows) = 11
    /\ "adjClose" \in historical.cols
    /\ Len(page.table[1].rows) = RecentRows
    /\ page.table[1].rows[1].date = historical.rows[2].date

\* ------------------------------------------------------------------------
\* C10: a run of main ends in one of two ways: the quote is None or an empty
\* list and the error message is shown with no metrics and no charts; or the
\* metrics of the first quote element are shown, with the charts and the
\* table exactly when the historical series is non-empty.
\* ------------------------------------------------------------------------
C10_OneOfTwoOutcomes ==
    RunOver =>
        IF quote.k = "none" \/ Len(quote.items) = 0
        THEN /\ page.error
             /\ page.metrics = <<>>
             /\ page.candlestick = <<>> /\ page.ma = <<>> /\ page.table = <<>>
        ELSE /\ ~page.error
             /\ Len(page.metrics) = 1
             /\ IsQuoteRecordOf(page.metrics[1], quote.items[1])
             /\ ~empty(historical) <=>
                   /\ Len(page.candlestick) = 1
                   /\ Len(page.ma) = 1
                   /\ Len(page.table) = 1

====
